---- MODULE Spec2Model ----
(***************************************************************************)
(* Model of SymlinkCreator.create_symlink (src/createSymlinkUI.py): the    *)
(* handler of the "Create Symlink" button.  The handler reads two text     *)
(* fields, validates them against the filesystem and calls os.symlink.     *)
(* The filesystem is a small tree: the root holds the directories of       *)
(* DirNames, each directory holds entries named by Names.                  *)
(***************************************************************************)
EXTENDS Integers, Sequences, FiniteSets, TLC

\* ---------------------------------------------------------------- bounds
MaxPad == 1          \* whitespace characters typed around a path
MaxHops == 3         \* symbolic links followed by one lookup before ELOOP
MaxExternal == 1     \* changes an external actor makes during one invocation

\* ------------------------------------------------------------ text, paths
WhiteSpace == {" ", "\t"}

\* Names are sequences of characters, as they come out of a typed text.
Nm(ch) == <<ch>>
DirNames == {Nm("c"), Nm("o"), Nm("n")}
\* The names a directory can hold; a longer name is refused (ENAMETOOLONG).
Names == {Nm("a"), Nm("l"), Nm("c"), Nm("o"), Nm("n")}
Cwd == Nm("c")
Root == <<>>

\* str.strip() of lines 130-131: drops leading and trailing whitespace.
RECURSIVE LStrip(_)
LStrip(s) == IF s # <<>> /\ Head(s) \in WhiteSpace THEN LStrip(Tail(s)) ELSE s

RECURSIVE RStrip(_)
RStrip(s) ==
    IF s # <<>> /\ s[Len(s)] \in WhiteSpace THEN RStrip(SubSeq(s, 1, Len(s) - 1)) ELSE s

\* The text taken as typed, the call of strip() forgotten.
StripNone(s) == s

Strip(s) == RStrip(LStrip(s))

\* pathlib.Path(text) of lines 138-139: the text is cut at "/", empty and "."
\* components are dropped, a leading "/" makes the path absolute.
RECURSIVE Split(_, _)
Split(s, cur) ==
    IF s = <<>> THEN <<cur>>
    ELSE IF Head(s) = "/" THEN <<cur>> \o Split(Tail(s), <<>>)
    ELSE Split(Tail(s), Append(cur, Head(s)))

KeepPart(c) == c # <<>> /\ c # <<".">>

Path(s) == [abs |-> (s # <<>> /\ Head(s) = "/"),
            parts |-> SelectSeq(Split(s, <<>>), KeepPart)]

NoPath == [abs |-> FALSE, parts |-> <<>>]

\* ------------------------------------------------------------- filesystem
Loc == DirNames \X Names
Absent == [kind |-> "absent", target |-> NoPath]
File == [kind |-> "file", target |-> NoPath]
Link(t) == [kind |-> "link", target |-> t]

\* Permission bits of the directories: n can be neither searched nor written.
DirMode == [d \in DirNames |-> IF d = Nm("n") THEN "---" ELSE "rwx"]

Searchable(md) == md \in {"rwx", "r-x"}
Writable(md) == md = "rwx"

Res(err, kind, at) == [err |-> err, kind |-> kind, at |-> at]
Fail(err) == Res(err, "none", <<>>)

\* Path resolution of the operating system: walks `parts` from directory
\* `cur`, following symbolic links (the last one only when `follow`).
RECURSIVE Walk(_, _, _, _, _, _)
Walk(f, m, cur, parts, follow, hops) ==
    IF parts = <<>> THEN Res("OK", "dir", cur)
    ELSE LET h == Head(parts)
             rest == Tail(parts)
         IN  IF cur = Root
             THEN IF h \in DirNames THEN Walk(f, m, h, rest, follow, hops)
                  ELSE Fail("ENOENT")
             ELSE IF ~Searchable(m[cur]) THEN Fail("EACCES")
             ELSE IF h \notin Names THEN Fail("ENAMETOOLONG")
             ELSE LET e == f[<<cur, h>>]
                  IN  CASE e.kind = "absent" -> Fail("ENOENT")
                        [] e.kind = "file" ->
                             IF rest = <<>> THEN Res("OK", "file", <<cur, h>>)
                             ELSE Fail("ENOTDIR")
                        [] e.kind = "link" ->
                             IF rest = <<>> /\ ~follow THEN Res("OK", "link", <<cur, h>>)
                             ELSE IF hops = 0 THEN Fail("ELOOP")
                             ELSE Walk(f, m, IF e.target.abs THEN Root ELSE cur,
                                       e.target.parts \o rest, follow, hops - 1)

Start(p) == IF p.abs THEN Root ELSE Cwd

\* os.stat(path) and os.lstat(path).
Stat(f, m, p) == Walk(f, m, Start(p), p.parts, TRUE, MaxHops)
LStat(f, m, p) == Walk(f, m, Start(p), p.parts, FALSE, MaxHops)

\* The exception object the interpreter raises for an operating-system error.
\* Only on Windows does OSError carry a winerror attribute.
ERROR_PRIVILEGE_NOT_HELD == 1314
NoExc == [errno |-> "none", has_winerror |-> FALSE, winerror |-> 0]

WinErrorOf(err) ==
    CASE err = "EACCES" -> 5
      [] err = "EEXIST" -> 183
      [] err = "ENOENT" -> 3
      [] err = "ENOTDIR" -> 267
      [] err = "ELOOP" -> 1921
      [] err = "ENAMETOOLONG" -> 206
      [] err = "EPRIV" -> ERROR_PRIVILEGE_NOT_HELD
      [] OTHER -> 0

OSError(os, err) == [errno |-> err, has_winerror |-> (os = "nt"),
                     winerror |-> IF os = "nt" THEN WinErrorOf(err) ELSE 0]

\* pathlib answers False for these errors of stat and lets every other
\* OSError through; interpreters from 3.14 on answer False for all of them.
IgnoredErrnos == {"ENOENT", "ENOTDIR", "EBADF", "ELOOP"}

Answer(ret, err) == [ret |-> ret, err |-> err]

\* The errno the interpreter gives the error: on Windows a name that is too
\* long (winerror 206) comes as ENOENT.
ErrnoOn(os, err) == IF os = "nt" /\ err = "ENAMETOOLONG" THEN "ENOENT" ELSE err

Tolerant(os, r, yes) ==
    IF r.err = "OK" THEN {Answer(IF yes THEN "True" ELSE "False", "OK")}
    ELSE IF ErrnoOn(os, r.err) \in IgnoredErrnos THEN {Answer("False", "OK")}
    ELSE {Answer("False", "OK"), Answer("raise", r.err)}

\* source_path.exists(), line 141.
PathExists(os, f, m, p) == Tolerant(os, Stat(f, m, p), TRUE)

\* dest_path.is_symlink(), line 145.
PathIsSymlink(os, f, m, p) ==
    LET r == LStat(f, m, p) IN Tolerant(os, r, r.kind = "link")

\* dest_path.exists() or dest_path.is_symlink(), line 145.
DestTaken(os, f, m, p) ==
    UNION {IF a.ret = "False" THEN PathIsSymlink(os, f, m, p) ELSE {a} :
              a \in PathExists(os, f, m, p)}

\* is_dir() asked of the entry itself, a symbolic link not followed.
PathIsDirNoFollow(os, f, m, p) ==
    LET r == LStat(f, m, p) IN Tolerant(os, r, r.kind = "dir")

\* source_path.is_dir(), line 155.
PathIsDir(os, f, m, p) ==
    LET r == Stat(f, m, p) IN Tolerant(os, r, r.kind = "dir")

\* The symlink primitive: creates at `dst` a link holding `target`, or changes
\* nothing and reports an error.  The link holds the text of `target` as
\* given: a relative target is later resolved from the link's directory.
Made(err, f) == [err |-> err, fs |-> f]

OsSymlink(f, m, os, priv, target, dst) ==
    IF os = "nt" /\ ~priv THEN Made("EPRIV", f)
    ELSE IF dst.parts = <<>> THEN Made("EEXIST", f)
    ELSE LET last == dst.parts[Len(dst.parts)]
             parent == Walk(f, m, Start(dst), SubSeq(dst.parts, 1, Len(dst.parts) - 1),
                            TRUE, MaxHops)
         IN  IF parent.err # "OK" THEN Made(parent.err, f)
             ELSE IF parent.kind # "dir" THEN Made("ENOTDIR", f)
             ELSE IF last \notin Names THEN Made("ENAMETOOLONG", f)
             ELSE IF parent.at = Root
                  THEN Made(IF last \in DirNames THEN "EEXIST" ELSE "EACCES", f)
             ELSE IF ~Searchable(m[parent.at]) THEN Made("EACCES", f)
             ELSE IF f[<<parent.at, last>>].kind # "absent" THEN Made("EEXIST", f)
             ELSE IF ~Writable(m[parent.at]) THEN Made("EACCES", f)
             ELSE Made("OK", [f EXCEPT ![<<parent.at, last>>] = Link(target)])

\* ------------------------------------------------------------------ state
VARIABLES
    os_name,          \* os.name of the platform: "posix" or "nt"
    privileged,       \* the process holds the right to create links (nt)
    fs,               \* the entry at each location of the filesystem
    source_edit,      \* text of the source field
    dest_edit,        \* text of the destination field
    pc,               \* position of the handler: "idle" when it is not running
    source_path_str,  \* line 130
    dest_path_str,    \* line 131
    is_dir,           \* line 155: "unset", "True" or "False"
    log,              \* lines the current invocation appended to the log widget
    fault,            \* the exception that left create_symlink uncaught, or "none"
    exc,              \* the exception handled at lines 169-175, or NoExc
    \* Kept for the properties only; the handler never reads them.
    arg_source,       \* the source text the current invocation read
    arg_dest,         \* the destination text the current invocation read
    fs0,              \* the filesystem when the current invocation began
    repeat,           \* the invocation repeats a successful one, same arguments
    stat_calls,       \* existence checks this invocation made
    prim_calls,       \* directory hints of the primitive's calls this invocation
    ext_count         \* changes the external actor made during this invocation

vars == <<os_name, privileged, fs, source_edit, dest_edit, pc, source_path_str,
          dest_path_str, is_dir, log, fault, exc, arg_source, arg_dest, fs0, repeat,
          stat_calls, prim_calls, ext_count>>

source_path == Path(source_path_str)
dest_path == Path(dest_path_str)

\* ----------------------------------------------------------------- inputs
T1(a) == <<a>>
T4(a, b) == <<"/", a, "/", b>>
Cores == {T1("a"), T1("l"), T4("c", "a"), <<"/", "o">>, T4("o", "l"), <<"/", "l">>,
          <<"a", "a">>}
PadCores == {<<>>, T1("a")}
Pad(k) == [i \in 1..k |-> IF i % 2 = 1 THEN " " ELSE "\t"]
Texts == Cores \cup {Pad(l) \o c \o Pad(r) : l \in 0..MaxPad, r \in 0..MaxPad, c \in PadCores}
IsBlank(t) == \A i \in 1..Len(t) : t[i] \in WhiteSpace

\* The filesystems the program may be started on: a source candidate c/a, a
\* destination candidate o/l and the entry o/a a relative link in o refers to.
ToDir == Link(Path(<<"/", "o">>))
ToSibling == Link(Path(T1("a")))
ToSealed == Link(Path(T4("n", "a")))
InitFs ==
    {[x \in Loc |-> CASE x = <<Nm("c"), Nm("a")>> -> ca
                      [] x = <<Nm("o"), Nm("l")>> -> ol
                      [] x = <<Nm("o"), Nm("a")>> -> oa
                      [] OTHER -> Absent] :
        ca \in {Absent, File, ToDir, ToSibling, ToSealed},
        ol \in {Absent, File, ToSibling},
        oa \in {Absent, File, ToSealed}}

\* --------------------------------------------------------------- outcomes
Has(l, tag) == \E i \in 1..Len(l) : l[i] = tag

Outcome ==
    IF fault # "none" THEN "Fault"
    ELSE IF Has(log, "E_REQUIRED") THEN "EmptyInput"
    ELSE IF Has(log, "E_SOURCE_MISSING") THEN "SourceMissing"
    ELSE IF Has(log, "E_DEST_EXISTS") THEN "DestinationExists"
    ELSE IF Has(log, "SUCCESS") THEN "Success"
    ELSE IF Has(log, "E_CREATE") \/ Has(log, "E_UNEXPECTED") THEN "ExecutionFailure"
    ELSE "None"

Returned == pc = "idle" /\ Outcome # "None"

Init ==
    /\ os_name \in {"posix", "nt"}
    /\ privileged \in BOOLEAN
    /\ (os_name = "posix" => privileged)
    /\ fs \in InitFs
    /\ source_edit = <<>>
    /\ dest_edit = <<>>
    /\ pc = "idle"
    /\ source_path_str = <<>>
    /\ dest_path_str = <<>>
    /\ is_dir = "unset"
    /\ log = <<>>
    /\ fault = "none"
    /\ exc = NoExc
    /\ arg_source = <<>>
    /\ arg_dest = <<>>
    /\ fs0 = fs
    /\ repeat = FALSE
    /\ stat_calls = 0
    /\ prim_calls = <<>>
    /\ ext_count = 0

Platform == <<os_name, privileged>>

\* ---------------------------------------------------------------- handler
\* Lines 130-136: the button is clicked with the two texts typed in the fields.
Begin ==
    /\ pc = "idle"
    /\ source_path_str' = Strip(source_edit)
    /\ dest_path_str' = Strip(dest_edit)
    /\ repeat' = (/\ Outcome = "Success"
                  /\ source_path_str' = source_path_str
                  /\ dest_path_str' = dest_path_str)
    /\ arg_source' = source_edit
    /\ arg_dest' = dest_edit
    /\ fs0' = fs
    /\ is_dir' = "unset"
    /\ fault' = "none"
    /\ exc' = NoExc
    /\ stat_calls' = 0
    /\ prim_calls' = <<>>
    /\ ext_count' = 0
    /\ IF source_path_str' = <<>> \/ dest_path_str' = <<>>
       THEN log' = <<"E_REQUIRED">> /\ pc' = "idle"
       ELSE log' = <<>> /\ pc' = "source"
    /\ UNCHANGED <<Platform, fs, source_edit, dest_edit>>

Locals == <<source_edit, dest_edit, source_path_str, dest_path_str, repeat, arg_source,
            arg_dest, fs0>>

\* Lines 141-143.
CheckSource ==
    /\ pc = "source"
    /\ stat_calls' = stat_calls + 1
    /\ \E a \in PathExists(os_name, fs, DirMode, source_path) :
          CASE a.ret = "raise" -> fault' = a.err /\ pc' = "idle" /\ log' = log
            [] a.ret = "False" ->
                 fault' = fault /\ pc' = "idle" /\ log' = Append(log, "E_SOURCE_MISSING")
            [] a.ret = "True" -> fault' = fault /\ pc' = "dest" /\ log' = log
    /\ UNCHANGED <<Platform, fs, Locals, is_dir, exc, prim_calls, ext_count>>

\* Lines 145-147.
CheckDest ==
    /\ pc = "dest"
    /\ stat_calls' = stat_calls + 1
    /\ \E a \in DestTaken(os_name, fs, DirMode, dest_path) :
          CASE a.ret = "raise" -> fault' = a.err /\ pc' = "idle" /\ log' = log
            [] a.ret = "True" ->
                 fault' = fault /\ pc' = "idle" /\ log' = Append(log, "E_DEST_EXISTS")
            [] a.ret = "False" -> fault' = fault /\ pc' = "isdir" /\ log' = log
    /\ UNCHANGED <<Platform, fs, Locals, is_dir, exc, prim_calls, ext_count>>

\* Line 172: the test that adds the run-as-Administrator line.
\* The test taking "access denied" (5) for a privilege not held as well.
IsPermissionErrorAnyDenied(os, e) ==
    IF os # "nt" THEN "False"
    ELSE IF ~e.has_winerror THEN "AttributeError"
    ELSE IF e.winerror \in {ERROR_PRIVILEGE_NOT_HELD, WinErrorOf("EACCES")} THEN "True"
    ELSE "False"

\* Reading e.winerror raises AttributeError where OSError has no such attribute;
\* the test for os.name comes first and keeps the read to Windows.
IsPermissionError(os, e) ==
    IF os # "nt" THEN "False"
    ELSE IF ~e.has_winerror THEN "AttributeError"
    ELSE IF e.winerror = ERROR_PRIVILEGE_NOT_HELD THEN "True"
    ELSE "False"

\* Lines 169-173: what the handler of OSError appends to the log, and the
\* exception that leaves the handler, if one does.
Handled(os, e) ==
    LET t == IsPermissionError(os, e)
    IN  [lines |-> <<"E_CREATE", "DETAILS">> \o (IF t = "True" THEN <<"PERM_HINT">> ELSE <<>>),
         fault |-> IF t = "AttributeError" THEN t ELSE "none"]

\* Lines 151-155, and 169-173 when is_dir() raises.
DetermineIsDir ==
    /\ pc = "isdir"
    /\ \E a \in PathIsDir(os_name, fs, DirMode, source_path) :
          IF a.ret = "raise"
          THEN /\ exc' = OSError(os_name, a.err)
               /\ log' = log \o <<"ATTEMPT">> \o Handled(os_name, exc').lines
               /\ fault' = Handled(os_name, exc').fault
               /\ is_dir' = is_dir
               /\ pc' = "idle"
          ELSE /\ exc' = exc
               /\ fault' = fault
               /\ log' = Append(log, "ATTEMPT")
               /\ is_dir' = a.ret
               /\ pc' = "link"
    /\ UNCHANGED <<Platform, fs, Locals, stat_calls, prim_calls, ext_count>>

\* The call preceded by the removal of whatever is at the destination.
CreateLinkForce(f, m, os, priv, target, dst) ==
    LET at == (IF dst.abs THEN <<>> ELSE <<Cwd>>) \o dst.parts
    IN  OsSymlink(IF at \in Loc THEN [f EXCEPT ![at] = Absent] ELSE f,
                  m, os, priv, target, dst)

\* The link made before the privilege is asked for: a refusal leaves it behind.
CreateLinkLeaky(f, m, os, priv, target, dst) ==
    LET r == OsSymlink(f, m, os, TRUE, target, dst)
    IN  IF os = "nt" /\ ~priv THEN Made("EPRIV", r.fs) ELSE r

\* Lines 157-161: the one call of the primitive.
CreateLink(f, m, os, priv, target, dst) == OsSymlink(f, m, os, priv, target, dst)

\* Lines 157-161: the hint the primitive is given.
Hint(os, d) == IF os = "nt" THEN d ELSE "none"

\* Lines 157-173.
Symlink ==
    /\ pc = "link"
    /\ prim_calls' = Append(prim_calls, Hint(os_name, is_dir))
    /\ LET r == CreateLink(fs, DirMode, os_name, privileged, source_path, dest_path)
       IN  IF r.err = "OK"
           THEN /\ fs' = r.fs
                /\ exc' = exc
                /\ fault' = fault
                /\ log' = log \o <<"RULE", "SUCCESS", "SOURCE", "LINK", "RULE">>
           ELSE /\ fs' = r.fs
                /\ exc' = OSError(os_name, r.err)
                /\ fault' = Handled(os_name, exc').fault
                /\ log' = log \o Handled(os_name, exc').lines
    /\ pc' = "idle"
    /\ UNCHANGED <<Platform, Locals, is_dir, stat_calls, ext_count>>

create_symlink ==
    \/ Begin
    \/ CheckSource
    \/ CheckDest
    \/ DetermineIsDir
    \/ Symlink

\* The user fills in the empty form (typing, or the browse dialogs of lines
\* 102-124, which put the chosen path into the field).
TypePaths ==
    /\ pc = "idle"
    /\ source_edit = <<>> /\ dest_edit = <<>>
    /\ source_edit' \in Texts
    /\ dest_edit' \in Texts
    /\ UNCHANGED <<Platform, fs, pc, source_path_str, dest_path_str, is_dir, log, fault,
                   exc, arg_source, arg_dest, fs0, repeat, stat_calls, prim_calls,
                   ext_count>>

Next == TypePaths \/ create_symlink

\* ------------------------------------------------------- external actor
\* Another process changes the filesystem while the handler runs: it puts an
\* entry at the destination once the destination check has passed, or takes
\* the source away once the source check has passed.
Lexical(p) == (IF p.abs THEN <<>> ELSE <<Cwd>>) \o p.parts

ExternalCreate ==
    /\ pc \in {"isdir", "link"}
    /\ ext_count < MaxExternal
    /\ Lexical(dest_path) \in Loc
    /\ fs[Lexical(dest_path)].kind = "absent"
    /\ \E e \in {File, ToDir, ToSealed} : fs' = [fs EXCEPT ![Lexical(dest_path)] = e]
    /\ ext_count' = ext_count + 1
    /\ UNCHANGED <<Platform, Locals, pc, is_dir, log, fault, exc, stat_calls, prim_calls>>

ExternalRemove ==
    /\ pc \in {"dest", "isdir", "link"}
    /\ ext_count < MaxExternal
    /\ Lexical(source_path) \in Loc
    /\ fs[Lexical(source_path)].kind # "absent"
    /\ fs' = [fs EXCEPT ![Lexical(source_path)] = Absent]
    /\ ext_count' = ext_count + 1
    /\ UNCHANGED <<Platform, Locals, pc, is_dir, log, fault, exc, stat_calls, prim_calls>>

NextRace == Next \/ ExternalCreate \/ ExternalRemove

SpecRace == Init /\ [][NextRace]_vars

Spec == Init /\ [][Next]_vars

\* ----------------------------------------------------------------- claims
\* What is in the filesystem, whatever the process is allowed to look at.
AllOpen == [d \in DirNames |-> "rwx"]
Present(f, p) == Stat(f, AllOpen, p).err = "OK"
EntryThere(f, p) == LStat(f, AllOpen, p).err = "OK"
Typed == source_path_str # <<>> /\ dest_path_str # <<>>
ValidationFailures == {"EmptyInput", "SourceMissing", "DestinationExists"}

\* C1: an invocation whose source or destination text is empty or holds only
\* whitespace ends in EmptyInput: it logs that both paths are required, checks
\* the existence of no path and never calls the symlink primitive.
C1_BlankInputIsEmptyInput ==
    (Returned /\ (IsBlank(arg_source) \/ IsBlank(arg_dest)))
        => /\ log = <<"E_REQUIRED">>
           /\ Outcome = "EmptyInput"
           /\ stat_calls = 0
           /\ prim_calls = <<>>
           /\ fs = fs0

C1_Witness ==
    /\ Returned
    /\ arg_source # <<>> /\ IsBlank(arg_source)
    /\ ~IsBlank(arg_dest)
    /\ Outcome = "EmptyInput"

\* C2: an invocation with two non-empty paths whose source path does not exist
\* ends in SourceMissing, whatever is at the destination.
C2_MissingSourceWins ==
    (Returned /\ Typed /\ ~Present(fs0, source_path)) => Outcome = "SourceMissing"

\* C3: an invocation with non-empty paths and an existing source, whose
\* destination path holds a file, a directory or a symbolic link (dangling or
\* not), ends in DestinationExists, never calls the primitive and leaves the
\* filesystem as it was.
C3_TakenDestinationRefused ==
    (Returned /\ Typed /\ Present(fs0, source_path) /\ EntryThere(fs0, dest_path))
        => /\ Outcome = "DestinationExists"
           /\ prim_calls = <<>>
           /\ fs = fs0

\* C4: an invocation that repeats, with the same arguments, one that ended in
\* Success ends in DestinationExists and leaves the link as the first made it.
C4_RepeatIsRefused ==
    (Returned /\ repeat) => (Outcome = "DestinationExists" /\ fs = fs0)

\* C5: after an invocation that ends in Success the destination path is a
\* symbolic link that resolves to the entry the source path resolves to.
C5_LinkReachesSource ==
    (Returned /\ Outcome = "Success")
        => /\ LStat(fs, AllOpen, dest_path).kind = "link"
           /\ Stat(fs, AllOpen, dest_path) = Stat(fs, AllOpen, source_path)

\* C6: an invocation that ends in ValidationFailure or ExecutionFailure leaves
\* the filesystem as it found it, and no invocation calls the primitive more
\* than once.
C6_FailureChangesNothing ==
    /\ Len(prim_calls) <= 1
    /\ (Returned /\ Outcome \in ValidationFailures \cup {"ExecutionFailure"}) => fs = fs0
    /\ (Returned /\ Outcome = "Success") => Len(prim_calls) = 1

C6_Witness ==
    /\ Returned
    /\ Outcome = "ExecutionFailure"
    /\ Len(prim_calls) = 1
    /\ fs = fs0

\* C7 as claimed: whenever the primitive fails because the caller lacks the
\* privilege or the permission to create the link, the log carries the line
\* about elevated privileges.
C7_EveryDenialIsFlagged ==
    (Returned /\ prim_calls # <<>> /\ exc.errno \in {"EPRIV", "EACCES"})
        => Has(log, "PERM_HINT")

\* C7 as amended: the line about elevated privileges is logged exactly when, on
\* the platform os.name = "nt", the primitive failed with the error of a
\* privilege not held (1314); a caller without that privilege whose request
\* passes validation gets ExecutionFailure with the line, and no entry is made.
C7_FlagIsPrivilegeNotHeld ==
    /\ Returned =>
         (Has(log, "PERM_HINT") <=>
             /\ Outcome = "ExecutionFailure"
             /\ os_name = "nt"
             /\ exc.winerror = ERROR_PRIVILEGE_NOT_HELD)
    /\ (Returned /\ prim_calls # <<>> /\ os_name = "nt" /\ ~privileged)
         => (Outcome = "ExecutionFailure" /\ Has(log, "PERM_HINT") /\ fs = fs0)

C7_Witness ==
    /\ Returned
    /\ os_name = "nt" /\ ~privileged
    /\ prim_calls # <<>>
    /\ Has(log, "PERM_HINT")
    /\ fs = fs0

\* C8: no invocation ends with an exception leaving create_symlink.
C8_NoFaultEscapes == fault = "none"

\* C9: with an external actor changing the filesystem after the checks, an
\* invocation that has passed validation never ends in an uncaught fault, a
\* failing primitive ends it in ExecutionFailure, and no step of the handler
\* changes or removes an entry that is there.
C9_RaceIsContained ==
    /\ [](Has(log, "ATTEMPT") => fault = "none")
    /\ []((Returned /\ prim_calls # <<>> /\ exc # NoExc) => Outcome = "ExecutionFailure")
    /\ [][pc' # pc => \A x \in Loc : fs[x].kind # "absent" => fs'[x] = fs[x]]_vars

C9_Witness ==
    /\ Returned
    /\ ext_count > 0
    /\ prim_calls # <<>>
    /\ exc.errno = "EEXIST"
    /\ Outcome = "ExecutionFailure"
    /\ fs[Lexical(dest_path)] \in {File, ToDir, ToSealed}

\* C10: is_dir is true exactly when the source path, symbolic links followed,
\* is a directory; on os.name = "nt" the primitive gets is_dir as its hint, on
\* other platforms it gets none.
SourceIsDirectory ==
    LET r == Stat(fs0, DirMode, source_path) IN r.err = "OK" /\ r.kind = "dir"

C10_DirectoryHint ==
    /\ is_dir # "unset" => (is_dir = "True" <=> SourceIsDirectory)
    /\ prim_calls # <<>> => prim_calls[1] = (IF os_name = "nt" THEN is_dir ELSE "none")

C10_Witness ==
    /\ Returned
    /\ os_name = "nt"
    /\ prim_calls = <<"True">>
    /\ LStat(fs0, DirMode, source_path).kind = "link"
    /\ Outcome = "Success"
====
